---- MODULE Spec2Model ----
(***************************************************************************)
(* Model of the two asset-pipeline scripts of noahs-game-godot/tools:      *)
(*   art_pipeline.py   - chroma key, trim, resize, slice, mirror,          *)
(*                       full_pipeline, mirror_directions                  *)
(*   generate_beans.py - the one-shot image generation script              *)
(*                                                                         *)
(* A file system is a function from paths to file contents; a path is a    *)
(* sequence of characters; an image file is a record                       *)
(*   [mode, width, height, px]  with px a function on <<x, y>>.            *)
(* Every function of art_pipeline.py has its own specification, whose Init *)
(* draws the call's arguments and the file it reads.                       *)
(***************************************************************************)
EXTENDS Integers, Sequences, FiniteSets, TLC

VARIABLES fs, pc, given, loc, out

vars == <<fs, pc, given, loc, out>>

(***************************************************************************)
(* Bounds of the model.                                                    *)
(***************************************************************************)
\* input images are at most MaxW x MaxH, with at most MaxMarks marked pixels
MaxW == 3
MaxH == 2
MaxMarks == 2
\* trim paddings are 0 .. MaxPad, resize targets 1 .. MaxTarget each way
MaxPad == 2
MaxTarget == 2
\* frame counts are 1 .. MaxFrames
MaxFrames == 4
\* files with candidate names present before mirror_directions
MaxExisting == 2
\* candidates of a response, and parts of a response in all
MaxCands == 2
MaxParts == 3

(***************************************************************************)
(* Program constants.                                                      *)
(***************************************************************************)
DefaultTolerance == 60
DefaultPadding == 8
SpillShift == 30
ChannelMax == 255

(***************************************************************************)
(* Small helpers.                                                          *)
(***************************************************************************)
Min(a, b) == IF a < b THEN a ELSE b
Max(a, b) == IF a > b THEN a ELSE b
\* Python's None, as the empty tuple
None == <<>>

(***************************************************************************)
(* Paths: sequences of characters.                                         *)
(***************************************************************************)
DotPng == <<".", "p", "n", "g">>
KeyedSuffix == <<"_", "k", "e", "y", "e", "d">> \o DotPng
TrimmedSuffix == <<"_", "t", "r", "i", "m", "m", "e", "d">> \o DotPng

\* str.replace(old, new): every non-overlapping occurrence, left to right.
RECURSIVE Replace(_, _, _)
Replace(s, old, new) ==
  IF Len(s) < Len(old) THEN s
  ELSE IF SubSeq(s, 1, Len(old)) = old
       THEN new \o Replace(SubSeq(s, Len(old) + 1, Len(s)), old, new)
       ELSE <<s[1]>> \o Replace(Tail(s), old, new)

\* os.path.exists, os.remove, and the write a successful save performs.
Exists(f, path) == path \in DOMAIN f
Remove(f, path) == [p \in DOMAIN f \ {path} |-> f[p]]
WriteFile(f, path, content) ==
  [p \in DOMAIN f \cup {path} |-> IF p = path THEN content ELSE f[p]]

(***************************************************************************)
(* Images.                                                                 *)
(***************************************************************************)
Magenta == <<255, 0, 255, 255>>
Clear == <<0, 0, 0, 0>>
Green == <<20, 200, 30, 255>>
Fringe == <<200, 80, 200, 255>>
Palette == {Magenta, Clear, Green, Fringe}
Backgrounds == {Magenta, Clear}

Positions(w, h) == (0 .. w - 1) \X (0 .. h - 1)

MkImage(mode, w, h, pixels) ==
  [mode |-> mode, width |-> w, height |-> h, px |-> pixels]

\* Image.convert("RGBA"): an RGB pixel gets the opaque alpha.
ConvertRGBA(im) ==
  IF im.mode = "RGBA" THEN im
  ELSE MkImage("RGBA", im.width, im.height,
               [p \in DOMAIN im.px |-> <<im.px[p][1], im.px[p][2], im.px[p][3], ChannelMax>>])

\* Image.open(path).convert("RGBA")
OpenRGBA(f, path) == ConvertRGBA(f[path])

\* Image.save: the encoder refuses an image with no pixels.
CanSave(im) == im.width > 0 /\ im.height > 0

\* the subsets of S with at most n elements
RECURSIVE SubsetsUpTo(_, _)
SubsetsUpTo(S, n) ==
  IF n = 0 THEN {{}}
  ELSE SubsetsUpTo(S, n - 1) \cup {T \cup {x} : T \in SubsetsUpTo(S, n - 1), x \in S}

\* The input images: a background colour with at most MaxMarks pixels of one
\* other colour, stored as RGBA or (when fully opaque) as RGB.
MarkSets(w, h) == SubsetsUpTo(Positions(w, h), MaxMarks)
Painted(w, h, bg, marks) ==
  {[p \in Positions(w, h) |-> IF p \in marks THEN fg ELSE bg] : fg \in Palette \ {bg}}
RGBAImages ==
  UNION {UNION {UNION {{MkImage("RGBA", w, h, pixels) : pixels \in Painted(w, h, bg, m)} :
      m \in MarkSets(w, h)} : bg \in Backgrounds} : <<w, h>> \in (1 .. MaxW) \X (1 .. MaxH)}
DropAlpha(im) ==
  MkImage("RGB", im.width, im.height,
          [p \in DOMAIN im.px |-> <<im.px[p][1], im.px[p][2], im.px[p][3]>>])
Opaque(im) == \A p \in DOMAIN im.px : im.px[p][4] = ChannelMax
Images == RGBAImages \cup {DropAlpha(im) : im \in {i \in RGBAImages : Opaque(i)}}

InPath == <<"a">> \o DotPng
OutPath == <<"b">> \o DotPng

(***************************************************************************)
(* chroma_key_magenta                                                      *)
(***************************************************************************)
Tolerances == {0, 1, DefaultTolerance, 90}

\* magenta_mask of one pixel
MagentaMask(p, tolerance) ==
  /\ p[1] > ChannelMax - tolerance
  /\ p[2] < tolerance
  /\ p[3] > ChannelMax - tolerance

\* magenta_distance squared
Dist2(p) ==
  (p[1] - ChannelMax) * (p[1] - ChannelMax) + p[2] * p[2]
    + (p[3] - ChannelMax) * (p[3] - ChannelMax)

\* edge_mask of one pixel: magenta_distance < tolerance * 2, not in the core mask
EdgeMask(p, tolerance) ==
  /\ tolerance > 0
  /\ Dist2(p) < (2 * tolerance) * (2 * tolerance)
  /\ ~MagentaMask(p, tolerance)

\* clip(magenta_distance / (tolerance * 2) * 255, 0, 255).astype(uint8)
EdgeAlpha(p, tolerance) ==
  CHOOSE a \in 0 .. ChannelMax :
    /\ (2 * tolerance * a) * (2 * tolerance * a) <= ChannelMax * ChannelMax * Dist2(p)
    /\ \/ a = ChannelMax
       \/ (2 * tolerance * (a + 1)) * (2 * tolerance * (a + 1))
            > ChannelMax * ChannelMax * Dist2(p)

\* what lines 42-53 leave in data for one pixel
KeyPixel(p, tolerance) ==
  IF MagentaMask(p, tolerance) THEN <<0, 0, 0, 0>>
  ELSE IF EdgeMask(p, tolerance)
       THEN <<p[1], Min(p[2] + SpillShift, ChannelMax), p[3], EdgeAlpha(p, tolerance)>>
       ELSE p

KeyedImage(img, tolerance) ==
  MkImage("RGBA", img.width, img.height,
          [p \in DOMAIN img.px |-> KeyPixel(img.px[p], tolerance)])

\* chroma_key_magenta(input_path, output_path, tolerance) on file system f
ChromaKeyMagenta(f, input_path, output_path, tolerance) ==
  WriteFile(f, output_path, KeyedImage(OpenRGBA(f, input_path), tolerance))

InitChroma ==
  /\ \E im \in Images, tol \in Tolerances, o \in {InPath, OutPath} :
       /\ given = [img |-> im, input_path |-> InPath, output_path |-> o, tolerance |-> tol]
       /\ fs = [p \in {InPath} |-> im]
  /\ pc = "call"
  /\ loc = None
  /\ out = <<>>

ChromaKeyCall ==
  /\ pc = "call"
  /\ fs' = ChromaKeyMagenta(fs, given.input_path, given.output_path, given.tolerance)
  /\ loc' = given.output_path
  /\ pc' = "returned"
  /\ UNCHANGED <<given, out>>

NextChroma == ChromaKeyCall

SpecChroma == InitChroma /\ [][NextChroma]_vars

\* C1 (chroma_key_magenta removes the #FF00FF background), as stated: every
\* pixel that is exactly (255, 0, 255) in the input is fully transparent in
\* the output, for every tolerance >= 0.
C1_MagentaTransparent ==
  pc = "returned" =>
    LET src == ConvertRGBA(given.img)
        dst == fs[given.output_path]
    IN  \A p \in DOMAIN src.px :
          (src.px[p][1] = 255 /\ src.px[p][2] = 0 /\ src.px[p][3] = 255)
            => dst.px[p][4] = 0

(***************************************************************************)
(* trim_to_content                                                         *)
(***************************************************************************)
\* Image.getbbox() of an RGBA image: the box of the pixels whose alpha is not
\* zero, right and lower edges exclusive; None when there is none.
Content(img) == {p \in DOMAIN img.px : img.px[p][4] # 0}
MinOf(S) == CHOOSE v \in S : \A u \in S : v <= u
MaxOf(S) == CHOOSE v \in S : \A u \in S : v >= u
GetBBox(img) ==
  IF Content(img) = {} THEN None
  ELSE <<MinOf({p[1] : p \in Content(img)}), MinOf({p[2] : p \in Content(img)}),
         MaxOf({p[1] : p \in Content(img)}) + 1, MaxOf({p[2] : p \in Content(img)}) + 1>>

\* Image.crop(box): pixels outside the source are transparent black.
Crop(img, box) ==
  MkImage(img.mode, box[3] - box[1], box[4] - box[2],
          [p \in Positions(box[3] - box[1], box[4] - box[2]) |->
             IF <<p[1] + box[1], p[2] + box[2]>> \in DOMAIN img.px
             THEN img.px[<<p[1] + box[1], p[2] + box[2]>>]
             ELSE <<0, 0, 0, 0>>])

\* mutant of Padded: the padding applied without clamping to the image
PaddedNoClamp(img, bbox, padding) ==
  <<bbox[1] - padding, bbox[2] - padding, bbox[3] + padding, bbox[4] + padding>>

\* the tuple "padded" of lines 68-73
Padded(img, bbox, padding) ==
  <<Max(0, bbox[1] - padding), Max(0, bbox[2] - padding),
    Min(img.width, bbox[3] + padding), Min(img.height, bbox[4] + padding)>>

TrimmedImage(img, padding) ==
  IF GetBBox(img) = None THEN img
  ELSE Crop(img, Padded(img, GetBBox(img), padding))

\* trim_to_content(input_path, output_path, padding) on file system f
TrimToContent(f, input_path, output_path, padding) ==
  WriteFile(f, output_path, TrimmedImage(OpenRGBA(f, input_path), padding))

InitTrim ==
  /\ \E im \in Images, pad \in 0 .. MaxPad, o \in {InPath, OutPath} :
       /\ given = [img |-> im, input_path |-> InPath, output_path |-> o, padding |-> pad]
       /\ fs = [p \in {InPath} |-> im]
  /\ pc = "call"
  /\ loc = None
  /\ out = <<>>

TrimCall ==
  /\ pc = "call"
  /\ fs' = TrimToContent(fs, given.input_path, given.output_path, given.padding)
  /\ loc' = given.output_path
  /\ pc' = "returned"
  /\ UNCHANGED <<given, out>>

NextTrim == TrimCall

SpecTrim == InitTrim /\ [][NextTrim]_vars

\* The content box of an image stated without getbbox: the least l, t and the
\* greatest r, b (exclusive) that enclose every pixel of non-zero alpha.
IsContentBox(img, l, t, r, b) ==
  /\ \A p \in Content(img) : l <= p[1] /\ p[1] < r /\ t <= p[2] /\ p[2] < b
  /\ \E p \in Content(img) : p[1] = l
  /\ \E p \in Content(img) : p[2] = t
  /\ \E p \in Content(img) : p[1] = r - 1
  /\ \E p \in Content(img) : p[2] = b - 1

\* C2 (trim_to_content crops to the content bounding box plus padding): with
\* content box (l, t, r, b) and padding p the output is the input's region
\* (max(0,l-p), max(0,t-p), min(W,r+p), min(H,b+p)): it has that size, holds
\* the input's pixels of that region, so every content pixel, and is at most
\* (r-l+2p) x (b-t+2p); an image with no content is written uncropped.
C2_TrimBox ==
  pc = "returned" =>
    LET src == ConvertRGBA(given.img)
        dst == fs[given.output_path]
        pad == given.padding
    IN  /\ Content(src) = {} => dst = src
        /\ \A l \in 0 .. src.width, r \in 0 .. src.width,
              t \in 0 .. src.height, b \in 0 .. src.height :
              IsContentBox(src, l, t, r, b) =>
                LET x0 == Max(0, l - pad)
                    y0 == Max(0, t - pad)
                    x1 == Min(src.width, r + pad)
                    y1 == Min(src.height, b + pad)
                IN  /\ dst.width = x1 - x0 /\ dst.height = y1 - y0
                    /\ dst.width <= r - l + 2 * pad
                    /\ dst.height <= b - t + 2 * pad
                    /\ DOMAIN dst.px = Positions(x1 - x0, y1 - y0)
                    /\ \A p \in DOMAIN dst.px :
                          dst.px[p] = src.px[<<p[1] + x0, p[2] + y0>>]
                    /\ \A p \in Content(src) :
                          /\ <<p[1] - x0, p[2] - y0>> \in DOMAIN dst.px
                          /\ dst.px[<<p[1] - x0, p[2] - y0>>] = src.px[p]

\* a trim that really cropped: content smaller than the image, padding clamped
\* on one side and not on the other
C2_Witness ==
  /\ pc = "returned"
  /\ "padding" \in DOMAIN given
  /\ given.padding = 1
  /\ given.img.width = 3
  /\ GetBBox(ConvertRGBA(given.img)) = <<0, 0, 1, 1>>
  /\ fs[given.output_path].width = 2

(***************************************************************************)
(* resize_nearest                                                          *)
(***************************************************************************)
\* Nearest-neighbour source index of output index x: the source pixel under
\* the centre of the output pixel, floor((x + 1/2) * src / dst).
NearestIndex(x, src, dst) == ((2 * x + 1) * src) \div (2 * dst)

\* mutant of ResizedImage: width and height taken in the wrong order
ResizedSwapped(img, w, h) ==
  MkImage(img.mode, h, w,
          [p \in Positions(h, w) |->
             img.px[<<NearestIndex(p[1], img.width, h), NearestIndex(p[2], img.height, w)>>]])

\* img.resize((w, h), Image.NEAREST)
ResizedImage(img, w, h) ==
  MkImage(img.mode, w, h,
          [p \in Positions(w, h) |->
             img.px[<<NearestIndex(p[1], img.width, w), NearestIndex(p[2], img.height, h)>>]])

\* resize_nearest(input_path, output_path, w, h) on file system f
ResizeNearest(f, input_path, output_path, w, h) ==
  WriteFile(f, output_path, ResizedImage(OpenRGBA(f, input_path), w, h))

InitResize ==
  /\ \E im \in Images, w \in 1 .. MaxTarget, h \in 1 .. MaxTarget :
       /\ given = [img |-> im, input_path |-> InPath, output_path |-> OutPath,
                   w |-> w, h |-> h]
       /\ fs = [p \in {InPath} |-> im]
  /\ pc = "call"
  /\ loc = None
  /\ out = <<>>

ResizeCall ==
  /\ pc = "call"
  /\ fs' = ResizeNearest(fs, given.input_path, given.output_path, given.w, given.h)
  /\ loc' = given.output_path
  /\ pc' = "returned"
  /\ UNCHANGED <<given, out>>

NextResize == ResizeCall

SpecResize == InitResize /\ [][NextResize]_vars

\* C5 (resize_nearest produces exact target dimensions): the output is exactly
\* w wide and h high, with a pixel at each of its w * h positions, and every
\* output pixel is the value of some pixel of the input.
C5_ResizeExact ==
  pc = "returned" =>
    LET src == ConvertRGBA(given.img)
        dst == fs[given.output_path]
    IN  /\ dst.width = given.w
        /\ dst.height = given.h
        /\ DOMAIN dst.px = Positions(given.w, given.h)
        /\ \A p \in DOMAIN dst.px : \E q \in DOMAIN src.px : dst.px[p] = src.px[q]

\* a resize that changed both dimensions of a two-coloured image
C5_Witness ==
  /\ pc = "returned"
  /\ "w" \in DOMAIN given
  /\ given.img.width = 3 /\ given.img.height = 1
  /\ given.w = 2 /\ given.h = 2
  /\ fs[given.output_path].width = 2 /\ fs[given.output_path].height = 2
  /\ fs[given.output_path].px[<<0, 0>>] # fs[given.output_path].px[<<1, 0>>]

(***************************************************************************)
(* mirror_horizontal                                                       *)
(***************************************************************************)
MidPath == <<"m">> \o DotPng

\* mutant of MirroredImage: Image.FLIP_TOP_BOTTOM instead of FLIP_LEFT_RIGHT
FlippedTopBottom(img) ==
  MkImage(img.mode, img.width, img.height,
          [p \in DOMAIN img.px |-> img.px[<<p[1], img.height - 1 - p[2]>>]])

\* img.transpose(Image.FLIP_LEFT_RIGHT)
MirroredImage(img) ==
  MkImage(img.mode, img.width, img.height,
          [p \in DOMAIN img.px |-> img.px[<<img.width - 1 - p[1], p[2]>>]])

\* mirror_horizontal(input_path, output_path) on file system f
MirrorHorizontal(f, input_path, output_path) ==
  WriteFile(f, output_path, MirroredImage(OpenRGBA(f, input_path)))

\* mirror_horizontal(a, m) followed by mirror_horizontal(m, b); m may be a
\* itself (mirrored in place) and b may be m.
InitMirror ==
  /\ \E im \in Images, m \in {InPath, MidPath}, o \in {MidPath, OutPath} :
       /\ given = [img |-> im, input_path |-> InPath, mid_path |-> m, output_path |-> o]
       /\ fs = [p \in {InPath} |-> im]
  /\ pc = "call"
  /\ loc = None
  /\ out = <<>>

MirrorCall ==
  /\ pc = "call"
  /\ fs' = MirrorHorizontal(fs, given.input_path, given.mid_path)
  /\ loc' = given.mid_path
  /\ pc' = "once"
  /\ UNCHANGED <<given, out>>

MirrorAgain ==
  /\ pc = "once"
  /\ fs' = MirrorHorizontal(fs, given.mid_path, given.output_path)
  /\ loc' = given.output_path
  /\ pc' = "twice"
  /\ UNCHANGED <<given, out>>

NextMirror == MirrorCall \/ MirrorAgain

SpecMirror == InitMirror /\ [][NextMirror]_vars

\* C4 (mirror_horizontal is self-inverse): one application puts input pixel
\* (W-1-x, y) at (x, y); two applications give an image of the input's
\* dimensions with the input's pixel at every position (the RGBA value of
\* the input pixel, which for an RGBA input is the input itself).
C4_MirrorSelfInverse ==
  LET src == ConvertRGBA(given.img)
  IN  /\ pc = "once" =>
            LET dst == fs[given.mid_path]
            IN  /\ dst.width = src.width /\ dst.height = src.height
                /\ \A p \in DOMAIN dst.px :
                      dst.px[p] = src.px[<<src.width - 1 - p[1], p[2]>>]
      /\ pc = "twice" =>
            /\ fs[given.output_path] = src
            /\ given.img.mode = "RGBA" => fs[given.output_path] = given.img

\* two applications of a mirror that changed the image
C4_Witness ==
  /\ pc = "twice"
  /\ "mid_path" \in DOMAIN given
  /\ given.mid_path # given.output_path
  /\ fs[given.mid_path] # ConvertRGBA(given.img)
  /\ fs[given.output_path] = ConvertRGBA(given.img)
  /\ given.img.height = 2

(***************************************************************************)
(* slice_sprite_sheet                                                      *)
(***************************************************************************)
DigitChars == <<"0", "1", "2", "3", "4", "5", "6", "7", "8", "9">>

\* f"{i:03d}" for 0 <= i < 1000
Pad3(i) ==
  <<DigitChars[((i \div 100) % 10) + 1], DigitChars[((i \div 10) % 10) + 1],
    DigitChars[(i % 10) + 1]>>

\* os.path.join(output_dir, f"{base_name}_f{i:03d}.png")
FramePath(output_dir, base_name, i) ==
  output_dir \o <<"/">> \o base_name \o <<"_", "f">> \o Pad3(i) \o DotPng

\* mutant of FrameWidth: the width rounded up instead of down
FrameWidthCeil(width, frame_count) == (width + frame_count - 1) \div frame_count

\* frame_width = sheet.width // frame_count
FrameWidth(width, frame_count) == width \div frame_count

\* the crop box of frame i
FrameBox(i, frame_width, frame_height) ==
  <<i * frame_width, 0, (i + 1) * frame_width, frame_height>>

SheetPath == <<"s">> \o DotPng
FramesDir == <<"o">>
BaseName == <<"w">>

InitSlice ==
  /\ \E im \in Images, n \in 1 .. MaxFrames :
       /\ given = [img |-> im, sheet_path |-> SheetPath, output_dir |-> FramesDir,
                   base_name |-> BaseName, frame_count |-> n]
       /\ fs = [p \in {SheetPath} |-> im]
  /\ pc = "call"
  /\ loc = None
  /\ out = <<>>

\* lines 91-94: open the sheet and compute the frame size
SliceOpen ==
  /\ pc = "call"
  /\ loc' = [sheet |-> OpenRGBA(fs, given.sheet_path),
             frame_width |-> FrameWidth(OpenRGBA(fs, given.sheet_path).width,
                                        given.frame_count),
             frame_height |-> OpenRGBA(fs, given.sheet_path).height,
             i |-> 0, boxes |-> <<>>, ret |-> None]
  /\ pc' = "loop"
  /\ UNCHANGED <<fs, given, out>>

\* lines 96-98: one iteration; a frame with no pixels cannot be saved and the
\* exception ends the call
SliceFrame ==
  /\ pc = "loop"
  /\ loc.i < given.frame_count
  /\ LET box == FrameBox(loc.i, loc.frame_width, loc.frame_height)
         frame == Crop(loc.sheet, box)
     IN  IF CanSave(frame)
         THEN /\ fs' = WriteFile(fs, FramePath(given.output_dir, given.base_name, loc.i),
                                 frame)
              /\ loc' = [loc EXCEPT !.i = loc.i + 1, !.boxes = Append(loc.boxes, box)]
              /\ pc' = "loop"
         ELSE /\ pc' = "raised"
              /\ UNCHANGED <<fs, loc>>
  /\ UNCHANGED <<given, out>>

\* line 100
SliceReturn ==
  /\ pc = "loop"
  /\ loc.i >= given.frame_count
  /\ loc' = [loc EXCEPT !.ret = given.frame_count]
  /\ pc' = "returned"
  /\ UNCHANGED <<fs, given, out>>

NextSlice == SliceOpen \/ SliceFrame \/ SliceReturn

SpecSlice == InitSlice /\ [][NextSlice]_vars

\* what C3 says of a finished call: frame_count is returned, the files written
\* are exactly <base>_f000 .. <base>_f<frame_count-1>, frame i is the columns
\* [i * (W div n), (i+1) * (W div n)) of the sheet at full height, and the
\* column ranges are pairwise disjoint.
SliceDone ==
  LET sheet == ConvertRGBA(given.img)
      n == given.frame_count
      fw == sheet.width \div n
      name(i) == FramePath(given.output_dir, given.base_name, i)
  IN  /\ loc.ret = n
      /\ DOMAIN fs = {given.sheet_path} \cup {name(i) : i \in 0 .. n - 1}
      /\ Cardinality({name(i) : i \in 0 .. n - 1}) = n
      /\ \A i \in 0 .. n - 1 :
            /\ fs[name(i)].width = fw
            /\ fs[name(i)].height = sheet.height
            /\ DOMAIN fs[name(i)].px = Positions(fw, sheet.height)
            /\ \A p \in DOMAIN fs[name(i)].px :
                  fs[name(i)].px[p] = sheet.px[<<i * fw + p[1], p[2]>>]
      /\ \A i \in 1 .. n, j \in 1 .. n :
            i < j => loc.boxes[i][3] <= loc.boxes[j][1]
      /\ fs[given.sheet_path] = given.img

\* C3 as stated (slice_sprite_sheet produces frame_count equal-width images
\* for every sheet and every frame_count >= 1): the call never ends in an
\* exception, and when it returns it has written the frame_count frames.
C3_SliceAnyCount ==
  /\ pc # "raised"
  /\ pc = "returned" => SliceDone

\* C3 amended (frame_count between 1 and the sheet's width): such a call never
\* ends in an exception, and every call that returns has written the
\* frame_count equal-width, pairwise disjoint frames and returns frame_count.
C3_SliceWithinWidth ==
  /\ (pc = "raised" => given.frame_count > given.img.width)
  /\ (pc = "returned" => SliceDone /\ given.frame_count <= given.img.width)

\* a sheet of width 3 sliced into 2 frames of width 1, the third column unused
C3_Witness ==
  /\ pc = "returned"
  /\ "frame_count" \in DOMAIN given
  /\ given.img.width = 3
  /\ given.frame_count = 2
  /\ loc.frame_width = 1
  /\ Cardinality(DOMAIN fs) = 3

(***************************************************************************)
(* full_pipeline                                                           *)
(***************************************************************************)
\* The sprites the pipeline is run on: the two-pixel strips of Images.
Sprites == {im \in Images : im.width = 2 /\ im.height = 1}

\* input paths: "a.png", "a.PNG" (no ".png" in it), "a.png.png"
UpperPath == <<"a", ".", "P", "N", "G">>
DoublePath == <<"a">> \o DotPng \o DotPng
InputPaths == {InPath, UpperPath, DoublePath}

\* keyed_path and trimmed_path of lines 121 and 125
KeyedPath(input_path) == Replace(input_path, DotPng, KeyedSuffix)
TrimmedPath(input_path) == Replace(input_path, DotPng, TrimmedSuffix)

\* mutant of ShouldRemove: the intermediate removed even when it is the output
ShouldRemoveAlways(f, tmp, output_path) == Exists(f, tmp)

\* the condition of line 133
ShouldRemove(f, tmp, output_path) == Exists(f, tmp) /\ tmp # output_path

InitPipeline ==
  /\ \E im \in Sprites, i \in InputPaths,
        tw \in 1 .. MaxTarget, th \in 1 .. MaxTarget,
        tol \in {0, DefaultTolerance}, pad \in {0, DefaultPadding} :
       \E o \in {OutPath, i, KeyedPath(i), TrimmedPath(i)} :
         /\ given = [img |-> im, input_path |-> i, output_path |-> o,
                     target_w |-> tw, target_h |-> th,
                     tolerance |-> tol, padding |-> pad]
         /\ fs = [p \in {i} |-> im]
  /\ pc = "chroma"
  /\ loc = [keyed_path |-> None, trimmed_path |-> None, tmps |-> <<>>, steps |-> <<>>]
  /\ out = <<>>

\* lines 121-122
PipelineChroma ==
  /\ pc = "chroma"
  /\ LET keyed_path == KeyedPath(given.input_path)
     IN  /\ fs' = ChromaKeyMagenta(fs, given.input_path, keyed_path, given.tolerance)
         /\ loc' = [loc EXCEPT !.keyed_path = keyed_path,
                               !.steps = Append(loc.steps,
                                  [op |-> "chroma_key", read |-> given.input_path,
                                   wrote |-> keyed_path])]
  /\ pc' = "trim"
  /\ UNCHANGED <<given, out>>

\* lines 125-126
PipelineTrim ==
  /\ pc = "trim"
  /\ LET trimmed_path == TrimmedPath(given.input_path)
     IN  /\ fs' = TrimToContent(fs, loc.keyed_path, trimmed_path, given.padding)
         /\ loc' = [loc EXCEPT !.trimmed_path = trimmed_path,
                               !.steps = Append(loc.steps,
                                  [op |-> "trim", read |-> loc.keyed_path,
                                   wrote |-> trimmed_path])]
  /\ pc' = "resize"
  /\ UNCHANGED <<given, out>>

\* line 129
PipelineResize ==
  /\ pc = "resize"
  /\ fs' = ResizeNearest(fs, loc.trimmed_path, given.output_path,
                         given.target_w, given.target_h)
  /\ loc' = [loc EXCEPT !.tmps = <<loc.keyed_path, loc.trimmed_path>>,
                        !.steps = Append(loc.steps,
                           [op |-> "resize", read |-> loc.trimmed_path,
                            wrote |-> given.output_path])]
  /\ pc' = "clean"
  /\ UNCHANGED <<given, out>>

\* lines 132-134: one iteration of the clean-up loop
PipelineClean ==
  /\ pc = "clean"
  /\ loc.tmps # <<>>
  /\ fs' = IF ShouldRemove(fs, Head(loc.tmps), given.output_path)
           THEN Remove(fs, Head(loc.tmps))
           ELSE fs
  /\ loc' = [loc EXCEPT !.tmps = Tail(loc.tmps)]
  /\ UNCHANGED <<pc, given, out>>

\* line 136
PipelineReturn ==
  /\ pc = "clean"
  /\ loc.tmps = <<>>
  /\ pc' = "returned"
  /\ UNCHANGED <<fs, given, loc, out>>

NextPipeline ==
  PipelineChroma \/ PipelineTrim \/ PipelineResize \/ PipelineClean \/ PipelineReturn

SpecPipeline == InitPipeline /\ [][NextPipeline]_vars

\* C8 (full_pipeline runs chroma key, then trim, then resize, each step
\* reading the file the previous step wrote): when it returns the three steps
\* ran in that order, each on the path the one before wrote, the file at
\* output_path is the resize of the trim of the chroma key of the input and
\* is exactly target_w x target_h, and neither intermediate path still
\* exists unless it is output_path.
C8_PipelineOrder ==
  pc = "returned" =>
    LET src == ConvertRGBA(given.img)
        keyed == KeyedImage(src, given.tolerance)
        trimmed == TrimmedImage(keyed, given.padding)
    IN  /\ Len(loc.steps) = 3
        /\ loc.steps[1].op = "chroma_key" /\ loc.steps[1].read = given.input_path
        /\ loc.steps[2].op = "trim" /\ loc.steps[2].read = loc.steps[1].wrote
        /\ loc.steps[3].op = "resize" /\ loc.steps[3].read = loc.steps[2].wrote
        /\ loc.steps[3].wrote = given.output_path
        /\ Exists(fs, given.output_path)
        /\ fs[given.output_path] = ResizedImage(trimmed, given.target_w, given.target_h)
        /\ fs[given.output_path].width = given.target_w
        /\ fs[given.output_path].height = given.target_h
        /\ \A tmp \in {loc.keyed_path, loc.trimmed_path} :
              tmp # given.output_path => ~Exists(fs, tmp)

\* a returned pipeline whose output path is its own keyed intermediate, which
\* is therefore kept while the trimmed intermediate is removed
C8_Witness ==
  /\ pc = "returned"
  /\ "target_w" \in DOMAIN given
  /\ given.input_path = InPath
  /\ given.output_path = loc.keyed_path
  /\ loc.trimmed_path # loc.keyed_path
  /\ Exists(fs, given.output_path)
  /\ ~Exists(fs, loc.trimmed_path)
  /\ given.target_w = 2 /\ given.target_h = 1
  /\ given.tolerance = DefaultTolerance
  /\ given.img.px[<<0, 0>>] = Magenta /\ given.img.px[<<1, 0>>] = Green

\* C10 (full_pipeline never destroys its input), as stated: whenever
\* output_path differs from input_path, the file at input_path still exists
\* with its original content when full_pipeline returns, also when input_path
\* does not contain ".png".
C10_InputPreserved ==
  (pc = "returned" /\ given.output_path # given.input_path) =>
    /\ Exists(fs, given.input_path)
    /\ fs[given.input_path] = given.img

(***************************************************************************)
(* mirror_directions                                                       *)
(***************************************************************************)
\* mirror_map.items() in order, and the suffix list of line 149
MirrorMap == << <<(<<"n", "w">>), (<<"n", "e">>)>>,
               <<(<<"w">>), (<<"e">>)>>,
               <<(<<"s", "w">>), (<<"s", "e">>)>> >>
Suffixes == << <<>>, <<"-", "4", "f">>, <<"-", "6", "f">>, <<"-", "3", "f">>,
              <<"-", "5", "f">>, <<"-", "2", "f">> >>

\* os.path.join(source_dir, f"{character}-{action}-{dir}{suffix}.png")
SpritePath(source_dir, character, action, dir, suffix) ==
  source_dir \o <<"/">> \o character \o <<"-">> \o action \o <<"-">> \o dir
    \o suffix \o DotPng

\* The iterations of the two nested loops, in order: iteration k handles
\* direction pair (k-1) div 6 + 1 and suffix (k-1) mod 6 + 1.
Iterations == Len(MirrorMap) * Len(Suffixes)
PairOf(k) == MirrorMap[((k - 1) \div Len(Suffixes)) + 1]
SuffixOf(k) == Suffixes[((k - 1) % Len(Suffixes)) + 1]
SrcPath(g, k) == SpritePath(g.source_dir, g.character, g.action, PairOf(k)[1], SuffixOf(k))

\* mutant of DstPath: the destination named after the source direction
DstPathSameDir(g, k) ==
  SpritePath(g.source_dir, g.character, g.action, PairOf(k)[1], SuffixOf(k))

DstPath(g, k) == SpritePath(g.source_dir, g.character, g.action, PairOf(k)[2], SuffixOf(k))

\* three sprites that differ from their mirror images and from each other
SpriteA == MkImage("RGBA", 2, 1, (<<0, 0>> :> Green) @@ (<<1, 0>> :> Clear))
SpriteB == MkImage("RGB", 2, 1, (<<0, 0>> :> <<200, 80, 200>>) @@ (<<1, 0>> :> <<20, 200, 30>>))
SpriteOld == MkImage("RGBA", 2, 1, (<<0, 0>> :> Clear) @@ (<<1, 0>> :> Fringe))

SourceDir == <<"d">>
Character == <<"b">>
Action == <<"i">>

\* the directory before the call: at most MaxExisting files with candidate
\* names, at most one of them (an older mirror) under a destination name
InitMirrorDirs ==
  /\ LET g == [source_dir |-> SourceDir, character |-> Character, action |-> Action]
         srcs == {SrcPath(g, k) : k \in 1 .. Iterations}
         dsts == {DstPath(g, k) : k \in 1 .. Iterations}
     IN  \E S \in SubsetsUpTo(srcs, MaxExisting), D \in SubsetsUpTo(dsts, 1) :
           /\ Cardinality(S) + Cardinality(D) <= MaxExisting
           /\ \E content \in [S -> {SpriteA, SpriteB}] :
                /\ fs = [p \in S \cup D |-> IF p \in S THEN content[p] ELSE SpriteOld]
                /\ given = [source_dir |-> SourceDir, character |-> Character,
                            action |-> Action, fs0 |-> fs]
  /\ pc = "loop"
  /\ loc = [k |-> 1, count |-> 0, ret |-> None]
  /\ out = <<>>

\* lines 150-158: one iteration of the inner loop
MirrorDirsStep ==
  /\ pc = "loop"
  /\ loc.k <= Iterations
  /\ IF Exists(fs, SrcPath(given, loc.k))
     THEN /\ fs' = MirrorHorizontal(fs, SrcPath(given, loc.k), DstPath(given, loc.k))
          /\ out' = Append(out, <<"Mirrored", SrcPath(given, loc.k), DstPath(given, loc.k)>>)
          /\ loc' = [loc EXCEPT !.k = loc.k + 1, !.count = loc.count + 1]
     ELSE /\ loc' = [loc EXCEPT !.k = loc.k + 1]
          /\ UNCHANGED <<fs, out>>
  /\ UNCHANGED <<pc, given>>

\* line 160
MirrorDirsReturn ==
  /\ pc = "loop"
  /\ loc.k > Iterations
  /\ loc' = [loc EXCEPT !.ret = loc.count]
  /\ pc' = "returned"
  /\ UNCHANGED <<fs, given, out>>

NextMirrorDirs == MirrorDirsStep \/ MirrorDirsReturn

SpecMirrorDirs == InitMirrorDirs /\ [][NextMirrorDirs]_vars

\* the 18 candidate source names and the direction/suffix they stand for,
\* written out independently of the loop
SourceDirs == {<<"n", "w">>, <<"w">>, <<"s", "w">>}
MirrorOfDir(d) ==
  IF d = <<"n", "w">> THEN <<"n", "e">> ELSE IF d = <<"w">> THEN <<"e">> ELSE <<"s", "e">>
SuffixSet == {<<>>, <<"-", "2", "f">>, <<"-", "3", "f">>, <<"-", "4", "f">>,
              <<"-", "5", "f">>, <<"-", "6", "f">>}
NameOf(d, x) == SpritePath(given.source_dir, given.character, given.action, d, x)

\* C9 (mirror_directions mirrors nw->ne, w->e, sw->se): in every state no
\* file with a source direction name has been written, changed or removed;
\* when the call returns, for each of the 18 candidate source names that
\* existed the file of the destination direction and the same suffix is the
\* horizontal mirror of that source, and the count returned is the number of
\* candidate sources that existed.
C9_MirrorDirections ==
  /\ Cardinality({NameOf(d, x) : d \in SourceDirs, x \in SuffixSet}) = 18
  /\ \A d \in SourceDirs, x \in SuffixSet :
        /\ Exists(fs, NameOf(d, x)) <=> Exists(given.fs0, NameOf(d, x))
        /\ Exists(fs, NameOf(d, x)) => fs[NameOf(d, x)] = given.fs0[NameOf(d, x)]
  /\ pc = "returned" =>
        /\ \A d \in SourceDirs, x \in SuffixSet :
              Exists(given.fs0, NameOf(d, x)) =>
                /\ Exists(fs, NameOf(MirrorOfDir(d), x))
                /\ fs[NameOf(MirrorOfDir(d), x)]
                     = MirroredImage(ConvertRGBA(given.fs0[NameOf(d, x)]))
        /\ loc.ret = Cardinality({n \in {NameOf(d, x) : d \in SourceDirs, x \in SuffixSet} :
                                     Exists(given.fs0, n)})

\* a returned call that mirrored its one source over a destination file that
\* was already there
C9_Witness ==
  /\ pc = "returned"
  /\ "fs0" \in DOMAIN given
  /\ loc.ret = 1
  /\ Cardinality(DOMAIN given.fs0) = 2
  /\ Cardinality(DOMAIN fs) = 2
  /\ fs # given.fs0

(***************************************************************************)
(* generate_beans.py                                                       *)
(***************************************************************************)
EnvPath == <<".env">>
SpriteOutPath == <<"assets/characters/beans/_raw/beans-idle-s-v1.png">>

\* Lines of .env, as sequences of tokens; "GEMINI_API_KEY" is one token.
KeyPrefix == <<"GEMINI_API_KEY", "=">>
Whitespace == {" ", "\n"}
LineOther == <<"#", "x", "\n">>
LineEmptyKey == KeyPrefix \o <<"\n">>
LineBlankKey == KeyPrefix \o <<" ", "\n">>
LineKey == KeyPrefix \o <<"k", "=", "1", "\n">>
LineIndentedKey == <<" ">> \o KeyPrefix \o <<"k", "\n">>

\* the .env files the script is run with; NoEnv: there is no such file
NoEnv == <<"<absent>">>
EnvFiles ==
  {NoEnv, <<>>, <<LineOther>>, <<LineEmptyKey>>, <<LineBlankKey>>, <<LineIndentedKey>>,
   <<LineKey>>, <<LineOther, LineKey>>, <<LineEmptyKey, LineKey>>, <<LineKey, LineEmptyKey>>}

\* api_key = None
Unset == <<"<None>">>

\* str.startswith
StartsWith(line, prefix) ==
  Len(line) >= Len(prefix) /\ SubSeq(line, 1, Len(prefix)) = prefix

\* str.strip()
RECURSIVE Strip(_)
Strip(line) ==
  IF line = <<>> THEN line
  ELSE IF line[1] \in Whitespace THEN Strip(Tail(line))
  ELSE IF line[Len(line)] \in Whitespace THEN Strip(SubSeq(line, 1, Len(line) - 1))
  ELSE line

\* str.split("=", 1)[1]: what follows the first "="
RECURSIVE AfterFirstEq(_)
AfterFirstEq(line) ==
  IF line[1] = "=" THEN Tail(line) ELSE AfterFirstEq(Tail(line))

\* lines 19-24: the value of the first line that starts with GEMINI_API_KEY=
RECURSIVE LoadKey(_)
LoadKey(lines) ==
  IF lines = <<>> THEN Unset
  ELSE IF StartsWith(lines[1], KeyPrefix) THEN AfterFirstEq(Strip(lines[1]))
  ELSE LoadKey(Tail(lines))

\* mutant of KeyMissing: only an absent key line is refused
KeyIsNone(api_key) == api_key = Unset

\* "not api_key" of line 26
KeyMissing(api_key) == api_key = Unset \/ api_key = <<>>

\* base64: the characters used by the payloads below and their values
B64Value(c) ==
  CASE c = "A" -> 0 [] c = "I" -> 8 [] c = "Q" -> 16 [] c = "k" -> 36 [] c = "=" -> 0

\* the number of "=" that end the text
RECURSIVE PadCount(_)
PadCount(data) ==
  IF data # <<>> /\ data[Len(data)] = "=" THEN 1 + PadCount(SubSeq(data, 1, Len(data) - 1))
  ELSE 0

\* base64.b64decode accepts a text whose length with padding is a multiple of 4
B64Valid(data) == Len(data) % 4 = 0 /\ PadCount(data) <= 2

\* the bytes of one group of four characters
GroupBytes(g) ==
  LET n == B64Value(g[1]) * 262144 + B64Value(g[2]) * 4096 + B64Value(g[3]) * 64
             + B64Value(g[4])
  IN  SubSeq(<<n \div 65536, (n \div 256) % 256, n % 256>>, 1, 3 - PadCount(g))

\* base64.b64decode of a valid text
RECURSIVE B64Decode(_)
B64Decode(data) ==
  IF data = <<>> THEN <<>>
  ELSE GroupBytes(SubSeq(data, 1, 4)) \o B64Decode(SubSeq(data, 5, Len(data)))

\* the parts a candidate may carry
TextPart == [text |-> "t"]
InlineA == [inlineData |-> [mimeType |-> "image/png", data |-> <<"Q", "Q", "=", "=">>]]
InlineB == [inlineData |-> [mimeType |-> "image/png", data |-> <<"Q", "k", "I", "=">>]]
InlineBad == [inlineData |-> [mimeType |-> "image/png", data |-> <<"Q", "Q", "=">>]]
PartKinds == {TextPart, InlineA, InlineB, InlineBad}

\* candidates: without "content", with a content without "parts", with parts
NoContent == [finishReason |-> "SAFETY"]
NoPartsField == [content |-> [role |-> "model"]]
PartLists(n) == UNION {[1 .. k -> PartKinds] : k \in 0 .. n}
Candidates(n) ==
  {NoContent, NoPartsField} \cup {[content |-> [parts |-> ps]] : ps \in PartLists(n)}
PartCount(cand) ==
  IF "content" \in DOMAIN cand /\ "parts" \in DOMAIN cand.content
  THEN Len(cand.content.parts) ELSE 0

\* the lists of at most c candidates that carry at most n parts in all
RECURSIVE CandidateLists(_, _)
CandidateLists(c, n) ==
  IF c = 0 THEN {<<>>}
  ELSE {<<>>} \cup UNION {{<<cand>> \o rest : rest \in CandidateLists(c - 1, n - PartCount(cand))} :
                           cand \in Candidates(n)}

\* what urlopen and json.loads can give: an HTTP error, another failure
\* (no connection, time-out, a body that is not JSON), or the decoded body
Results ==
  {[promptFeedback |-> "blocked"]} \cup
  {[candidates |-> cs] : cs \in CandidateLists(MaxCands, MaxParts)}
NetOutcomes ==
  {[kind |-> "http_error"], [kind |-> "failed"]} \cup {[kind |-> "ok", result |-> r] : r \in Results}

InitGen ==
  /\ \E env \in EnvFiles :
       /\ given = [env |-> env]
       /\ fs = IF env = NoEnv THEN <<>> ELSE [p \in {EnvPath} |-> env]
  /\ pc = "read_key"
  /\ loc = [api_key |-> Unset, req |-> None, net |-> "none", result |-> None,
            ci |-> 1, pi |-> 1, image_saved |-> FALSE,
            posts |-> 0, writes |-> 0, status |-> None, steps |-> <<>>]
  /\ out = <<>>

\* an uncaught exception: the interpreter prints the traceback and exits 1
Uncaught(name) ==
  /\ out' = Append(out, <<"Traceback", name>>)
  /\ pc' = "exited"

\* lines 19-24
ReadKey ==
  /\ pc = "read_key"
  /\ IF ~Exists(fs, EnvPath)
     THEN /\ Uncaught("FileNotFoundError")
          /\ loc' = [loc EXCEPT !.status = 1, !.steps = Append(loc.steps, "read_key")]
     ELSE /\ loc' = [loc EXCEPT !.api_key = LoadKey(fs[EnvPath]),
                                !.steps = Append(loc.steps, "read_key")]
          /\ pc' = "check_key"
          /\ out' = out
  /\ UNCHANGED <<fs, given>>

\* lines 26-28
CheckKey ==
  /\ pc = "check_key"
  /\ IF KeyMissing(loc.api_key)
     THEN /\ out' = Append(out, <<"ERROR: GEMINI_API_KEY not found in .env">>)
          /\ loc' = [loc EXCEPT !.status = 1]
          /\ pc' = "exited"
     ELSE /\ pc' = "build_request"
          /\ UNCHANGED <<loc, out>>
  /\ UNCHANGED <<fs, given>>

\* lines 57-81
BuildRequest ==
  /\ pc = "build_request"
  /\ loc' = [loc EXCEPT !.req = [method |-> "POST", key |-> loc.api_key],
                        !.steps = Append(loc.steps, "build_request")]
  /\ out' = out \o << <<"Calling Gemini API">>, <<"This may take 15-30 seconds">> >>
  /\ pc' = "call"
  /\ UNCHANGED <<fs, given>>

\* lines 83-92: the one urlopen, and json.loads of the body it returns
CallEndpoint ==
  /\ pc = "call"
  /\ \E answer \in NetOutcomes :
       /\ loc' = [loc EXCEPT !.posts = loc.posts + 1, !.net = answer.kind,
                             !.result = IF answer.kind = "ok" THEN answer.result ELSE None,
                             !.status = IF answer.kind = "ok" THEN None ELSE 1,
                             !.steps = IF answer.kind = "ok"
                                       THEN loc.steps \o <<"call", "decode">>
                                       ELSE Append(loc.steps, "call")]
       /\ out' = IF answer.kind = "http_error" THEN Append(out, <<"API Error">>)
                 ELSE IF answer.kind = "failed" THEN Append(out, <<"Request failed">>)
                 ELSE out
       /\ pc' = IF answer.kind = "ok" THEN "extract" ELSE "exited"
  /\ UNCHANGED <<fs, given>>

\* mutant of BreakOnSave: the loops go on after an image was saved
NeverBreak(image_saved) == FALSE

\* lines 112 and 115-116: both loops are left once an image was saved
BreakOnSave(image_saved) == image_saved

\* lines 100-116: one step of the two nested loops, at candidate ci, part pi
ExtractStep ==
  /\ pc = "extract"
  /\ "candidates" \in DOMAIN loc.result
  /\ loc.ci <= Len(loc.result.candidates)
  /\ ~BreakOnSave(loc.image_saved)
  /\ LET candidate == loc.result.candidates[loc.ci]
     IN  IF ~("content" \in DOMAIN candidate /\ "parts" \in DOMAIN candidate.content)
            \/ loc.pi > Len(candidate.content.parts)
         THEN /\ loc' = [loc EXCEPT !.ci = loc.ci + 1, !.pi = 1]
              /\ UNCHANGED <<fs, out, pc>>
         ELSE LET part == candidate.content.parts[loc.pi]
              IN  IF "inlineData" \in DOMAIN part
                  THEN IF B64Valid(part.inlineData.data)
                       THEN /\ fs' = WriteFile(fs, SpriteOutPath,
                                               B64Decode(part.inlineData.data))
                            /\ out' = out \o << <<"Saved B3ANS sprite to">>, <<"File size">> >>
                            /\ loc' = [loc EXCEPT !.image_saved = TRUE,
                                                  !.writes = loc.writes + 1,
                                                  !.pi = loc.pi + 1,
                                                  !.steps = Append(loc.steps, "write")]
                            /\ pc' = pc
                       ELSE /\ Uncaught("binascii.Error")
                            /\ loc' = [loc EXCEPT !.status = 1]
                            /\ fs' = fs
                  ELSE /\ out' = IF "text" \in DOMAIN part
                                 THEN Append(out, <<"Text response">>) ELSE out
                       /\ loc' = [loc EXCEPT !.pi = loc.pi + 1]
                       /\ UNCHANGED <<fs, pc>>
  /\ UNCHANGED given

\* lines 118-125, reached when the loops are over or were never entered
CheckSaved ==
  /\ pc = "extract"
  /\ IF "candidates" \in DOMAIN loc.result
     THEN loc.ci > Len(loc.result.candidates) \/ BreakOnSave(loc.image_saved)
     ELSE TRUE
  /\ IF ~loc.image_saved
     THEN /\ out' = out \o << <<"ERROR: No image was generated">>, <<"response">> >>
          /\ loc' = [loc EXCEPT !.status = 1]
     ELSE /\ out' = out \o << <<"generated successfully">>, <<"Output">>, <<"Please review">> >>
          /\ loc' = [loc EXCEPT !.status = 0]
  /\ pc' = "exited"
  /\ UNCHANGED <<fs, given>>

NextGen == ReadKey \/ CheckKey \/ BuildRequest \/ CallEndpoint \/ ExtractStep \/ CheckSaved

SpecGen == InitGen /\ [][NextGen]_vars

\* The three failure cases, stated on the inputs of the run.
\* No key: no .env, no line that starts with GEMINI_API_KEY=, or the first
\* such line has nothing but white space after the "=".
KeyLineNumbers(env) == {i \in 1 .. Len(env) : StartsWith(env[i], KeyPrefix)}
NoKeyAvailable(env) ==
  \/ env = NoEnv
  \/ KeyLineNumbers(env) = {}
  \/ LET first == env[MinOf(KeyLineNumbers(env))]
     IN  \A j \in Len(KeyPrefix) + 1 .. Len(first) : first[j] \in Whitespace
\* Image data: some part of some candidate has an inlineData field.
HasInlineData(result) ==
  /\ "candidates" \in DOMAIN result
  /\ \E i \in 1 .. Len(result.candidates) :
        /\ "content" \in DOMAIN result.candidates[i]
        /\ "parts" \in DOMAIN result.candidates[i].content
        /\ \E j \in 1 .. Len(result.candidates[i].content.parts) :
              "inlineData" \in DOMAIN result.candidates[i].content.parts[j]
Printed(msg) == \E i \in 1 .. Len(out) : out[i] = msg
FailedRun ==
  /\ pc = "exited"
  /\ loc.status # 0
  /\ ~Exists(fs, SpriteOutPath)

\* C6 (each of the three failure cases prints a message and exits with a
\* non-zero status, and the sprite file is not written): a run without a key
\* never issues the request and exits non-zero after the key error (the
\* interpreter's traceback when .env is absent); a run whose request fails
\* exits non-zero at once after "API Error" or "Request failed"; a run whose
\* response has no inlineData part exits non-zero after "ERROR: No image was
\* generated"; in none of them does the sprite file exist.
C6_FailuresExitNonZero ==
  /\ NoKeyAvailable(given.env) =>
        /\ pc \in {"read_key", "check_key", "exited"}
        /\ loc.posts = 0
        /\ ~Exists(fs, SpriteOutPath)
        /\ pc = "exited" =>
              /\ FailedRun
              /\ IF given.env = NoEnv THEN Printed(<<"Traceback", "FileNotFoundError">>)
                 ELSE Printed(<<"ERROR: GEMINI_API_KEY not found in .env">>)
  /\ loc.net \in {"http_error", "failed"} =>
        /\ FailedRun
        /\ Printed(IF loc.net = "http_error" THEN <<"API Error">> ELSE <<"Request failed">>)
  /\ (loc.net = "ok" /\ ~HasInlineData(loc.result)) =>
        /\ pc \in {"extract", "exited"}
        /\ ~Exists(fs, SpriteOutPath)
        /\ pc = "exited" =>
              /\ FailedRun
              /\ Printed(<<"ERROR: No image was generated">>)

\* a run that got a response of two candidates with text but no image data
\* and exited with status 1
C6_Witness ==
  /\ pc = "exited"
  /\ loc.net = "ok"
  /\ ~HasInlineData(loc.result)
  /\ "candidates" \in DOMAIN loc.result
  /\ Len(loc.result.candidates) = 2
  /\ Printed(<<"Text response">>)
  /\ loc.status = 1

\* the parts of a response in candidate and part order
RECURSIVE AllParts(_)
AllParts(cands) ==
  IF cands = <<>> THEN <<>>
  ELSE (IF "content" \in DOMAIN cands[1] /\ "parts" \in DOMAIN cands[1].content
        THEN cands[1].content.parts ELSE <<>>) \o AllParts(Tail(cands))
FirstInlinePart(result) ==
  LET ps == AllParts(result.candidates)
  IN  ps[MinOf({i \in 1 .. Len(ps) : "inlineData" \in DOMAIN ps[i]})]
LinearSequence == <<"read_key", "build_request", "call", "decode", "write">>

\* C7 (every run follows read key -> build request -> call remote endpoint
\* -> decode response -> write file): the steps taken so far are always a
\* prefix of that sequence; the POST is issued at most once and only with the
\* non-empty key read from .env; the sprite file is written at most once,
\* only after a decoded response in which an inlineData part was found, and
\* holds the decoded data of the first such part; and a run exits with status
\* 0 exactly when that write happened.
C7_LinearRun ==
  /\ Len(loc.steps) <= Len(LinearSequence)
  /\ loc.steps = SubSeq(LinearSequence, 1, Len(loc.steps))
  /\ loc.posts <= 1
  /\ loc.posts = 1 =>
        /\ ~NoKeyAvailable(given.env)
        /\ loc.req.key # <<>>
        /\ loc.req.key = loc.api_key
  /\ loc.writes <= 1
  /\ Exists(fs, SpriteOutPath) <=> loc.writes = 1
  /\ loc.writes = 1 =>
        /\ loc.posts = 1
        /\ loc.net = "ok"
        /\ HasInlineData(loc.result)
        /\ fs[SpriteOutPath] = B64Decode(FirstInlinePart(loc.result).inlineData.data)
  /\ pc = "exited" => (loc.status = 0 <=> loc.writes = 1)

\* a run that exited with status 0 after skipping a candidate without
\* content and a text part, and wrote the first of two inlineData parts
C7_Witness ==
  /\ pc = "exited"
  /\ loc.status = 0
  /\ loc.writes = 1
  /\ Len(loc.result.candidates) = 2
  /\ loc.result.candidates[1] = NoContent
  /\ loc.result.candidates[2].content.parts = <<TextPart, InlineB, InlineA>>
  /\ fs[SpriteOutPath] = <<66, 66>>

====
